---- MODULE Spec2Model ----
(***************************************************************************)
(* Raga chord server: the chord catalog, the chord matcher, the custom     *)
(* interval matcher, the raga search and the request handlers of the       *)
(* Express server (index.js with raga search) and of the Netlify function. *)
(*                                                                         *)
(* JavaScript arrays are sequences (1-based here, 0-based in the source);  *)
(* a 12-element note pattern is a function 0..11 -> {0, 1} so that         *)
(* pattern[i] reads as in the source.  The flat and sharp signs of the     *)
(* note names are written b and # (the module is ASCII).                   *)
(***************************************************************************)
EXTENDS Integers, Sequences, FiniteSets, TLC

VARIABLES deployment, ragaCache, csv, reads, request, response

vars == <<deployment, ragaCache, csv, reads, request, response>>

(***************************************************************************)
(* Generic array helpers (Array.prototype.map / filter / every / concat).  *)
(***************************************************************************)
Range(s) == {s[i] : i \in 1..Len(s)}

RECURSIVE MaxOf(_)
MaxOf(s) == IF Len(s) = 1 THEN s[1]
            ELSE LET m == MaxOf(Tail(s)) IN IF s[1] > m THEN s[1] ELSE m

RECURSIVE Flatten(_)
Flatten(ss) == IF ss = <<>> THEN <<>> ELSE Head(ss) \o Flatten(Tail(ss))

(***************************************************************************)
(* Constant tables.                                                        *)
(***************************************************************************)
swarNames == <<"Sa", "Reb", "Re", "Gab", "Ga", "Ma", "Ma#", "Pa", "Dhab", "Dha", "Nib", "Ni">>

chordTypes == <<
  [id |-> "major",      name |-> "Major",        intervals |-> <<0, 4, 7>>,     color |-> "#3b82f6"],
  [id |-> "minor",      name |-> "Minor",        intervals |-> <<0, 3, 7>>,     color |-> "#8b5cf6"],
  [id |-> "diminished", name |-> "Diminished",   intervals |-> <<0, 3, 6>>,     color |-> "#ef4444"],
  [id |-> "sus4",       name |-> "Sus4",         intervals |-> <<0, 5, 7>>,     color |-> "#10b981"],
  [id |-> "augmented",  name |-> "Augmented",    intervals |-> <<0, 4, 8>>,     color |-> "#f97316"],
  [id |-> "major7",     name |-> "Major 7",      intervals |-> <<0, 4, 7, 11>>, color |-> "#22c55e"],
  [id |-> "minor7",     name |-> "Minor 7",      intervals |-> <<0, 3, 7, 10>>, color |-> "#06b6d4"],
  [id |-> "dom7",       name |-> "Dominant 7",   intervals |-> <<0, 4, 7, 10>>, color |-> "#eab308"],
  [id |-> "sus2",       name |-> "Sus2",         intervals |-> <<0, 2, 7>>,     color |-> "#14b8a6"],
  [id |-> "dim7",       name |-> "Diminished 7", intervals |-> <<0, 3, 6, 9>>,  color |-> "#db2777"],
  [id |-> "maj6",       name |-> "Major 6",      intervals |-> <<0, 4, 7, 9>>,  color |-> "#a3e635"],
  [id |-> "min6",       name |-> "Minor 6",      intervals |-> <<0, 3, 7, 9>>,  color |-> "#f43f5e"],
  [id |-> "m7b5",       name |-> "Half-diminished (m7b5)", intervals |-> <<0, 3, 6, 10>>, color |-> "#0ea5e9"]
>>

\* mutant: the root loop stops one short (root < 11)
RootsShort == [i \in 1..11 |-> i - 1]

\* for (let root = 0; root < 12; root++)
Roots == [i \in 1..12 |-> i - 1]

\* every 12-element 0/1 array toPattern can build
Patterns == [0..11 -> {0, 1}]

\* the pitch classes a pattern marks present
Present(pattern) == {i \in 0..11 : pattern[i] = 1}

(***************************************************************************)
(* Strings that the code takes apart (raga names, swara tokens, the search *)
(* text) are sequences of one-character strings.                           *)
(***************************************************************************)
\* String.prototype.toLowerCase on the characters used
LowerChar(c) ==
  CASE c = "A" -> "a"
    [] c = "B" -> "b"
    [] OTHER -> c

toLowerCase(str) == [i \in 1..Len(str) |-> LowerChar(str[i])]

\* String.prototype.trim: leading and trailing blanks dropped
RECURSIVE TrimLeft(_)
TrimLeft(str) == IF str # <<>> /\ Head(str) = " " THEN TrimLeft(Tail(str)) ELSE str

RECURSIVE TrimRight(_)
TrimRight(str) ==
  IF str # <<>> /\ str[Len(str)] = " " THEN TrimRight(SubSeq(str, 1, Len(str) - 1)) ELSE str

trim(str) == TrimRight(TrimLeft(str))

\* String.prototype.includes
includes(str, q) ==
  \E i \in 0..(Len(str) - Len(q)) : \A k \in 1..Len(q) : str[i + k] = q[k]

(***************************************************************************)
(* The CSV source and the raga repository.                                 *)
(***************************************************************************)
\* the letter-to-pitch-class map of toPattern
swaraMap == [S |-> 0, R |-> 2, r |-> 1, G |-> 4, g |-> 3, M |-> 6, m |-> 5, P |-> 7,
             D |-> 9, d |-> 8, N |-> 11, n |-> 10]

\* toPattern: a pitch class is present when its letter occurs anywhere in
\* the column; every other character (the hyphens too) marks nothing
toPattern(str) ==
  [i \in 0..11 |-> IF \E k \in 1..Len(str) : str[k] \in DOMAIN swaraMap /\ swaraMap[str[k]] = i
                   THEN 1 ELSE 0]

\* one data row of the file: name, aaroh column, avroh column
Row(name, aroha, avroh) == [name |-> name, aroha |-> aroha, avroh |-> avroh]

\* the record pushed for one row
RagaOf(row) ==
  LET aarohPattern == toPattern(row.aroha)
      avrohPattern == toPattern(row.avroh)
      combined == [idx \in 0..11 |-> IF aarohPattern[idx] # 0 \/ avrohPattern[idx] # 0 THEN 1 ELSE 0]
  IN [name |-> trim(row.name), notePattern |-> combined,
      aarohPattern |-> aarohPattern, avrohPattern |-> avrohPattern]

\* rows with an empty name, aaroh or avroh column are skipped
parseAarohAvrohCSV(rows) ==
  LET kept == SelectSeq(rows, LAMBDA w : w.name # <<>> /\ w.aroha # <<>> /\ w.avroh # <<>>)
  IN [k \in 1..Len(kept) |-> RagaOf(kept[k])]

\* let ragaCache = null
NullCache == [set |-> FALSE, ragas |-> <<>>]

\* a source file: readable or not, and the data rows it holds
Source(readable, rows) == [readable |-> readable, rows |-> rows]

NoSource == Source(FALSE, <<>>)

\* mutant: an empty cached list counts as no cache and is loaded again
getRagasReloadEmpty(cache, source) ==
  IF cache.set /\ Len(cache.ragas) > 0 THEN cache
  ELSE IF source.readable THEN [set |-> TRUE, ragas |-> parseAarohAvrohCSV(source.rows)]
  ELSE [set |-> TRUE, ragas |-> <<>>]

\* mutant: a failed read leaves the cache unset
getRagasNoFallback(cache, source) ==
  IF cache.set THEN cache
  ELSE IF source.readable THEN [set |-> TRUE, ragas |-> parseAarohAvrohCSV(source.rows)]
  ELSE cache

\* getRagas: the cache after the call (an empty array is truthy, so a
\* cached empty list is kept)
getRagas(cache, source) ==
  IF cache.set THEN cache
  ELSE IF source.readable THEN [set |-> TRUE, ragas |-> parseAarohAvrohCSV(source.rows)]
  ELSE [set |-> TRUE, ragas |-> <<>>]

\* the number of readFileSync calls after a getRagas call
readsAfter(cache, n) == IF cache.set THEN n ELSE n + 1

\* ragas.find(x => x.name.toLowerCase() === name.toLowerCase()): the index
\* of the first raga of that name, 0 when there is none
FindRaga(ragas, name) ==
  LET hits == {i \in 1..Len(ragas) : toLowerCase(ragas[i].name) = toLowerCase(name)}
  IN IF hits = {} THEN 0 ELSE CHOOSE i \in hits : \A j \in hits : i <= j

\* the rows of the data file used here
RagaRows == <<
  Row(<<"A", "b">>, <<"S">>, <<"S">>),
  Row(<<"a", "B">>, <<"S", "-", "G">>, <<"G", "-", "S">>),
  Row(<<"B", "a">>, <<"S", "-", "G">>, <<"P", "-", "S">>),
  Row(<<"b">>, <<"G">>, <<"P", "-", "G">>),
  Row(<<"B", "A", "b", " ">>, <<"S", "-", "R", "-", "G", "-", "P", "-", "D", "-", "S">>,
      <<"S", "-", "D", "-", "P", "-", "G", "-", "R", "-", "S">>),
  Row(<<"b", "b">>, <<"S", "-", "R", "-", "G", "-", "m", "-", "P", "-", "D", "-", "N">>,
      <<"S", "-", "n", "-", "d", "-", "P", "-", "M", "m", "-", "g", "-", "r", "-", "x">>),
  Row(<<"a">>, <<>>, <<"S">>)
>>

(***************************************************************************)
(* ChordMatcher.                                                           *)
(***************************************************************************)
\* mutant: the added offset is 4 above the top instead of 3
getExtendedIntervalsFourth(baseIntervals, extend) ==
  IF ~extend \/ Len(baseIntervals) < 3 THEN baseIntervals
  ELSE Append(baseIntervals, (MaxOf(baseIntervals) + 4) % 12)

\* mutant: the top offset itself is appended again
getExtendedIntervalsRepeatTop(baseIntervals, extend) ==
  IF ~extend \/ Len(baseIntervals) < 3 THEN baseIntervals
  ELSE Append(baseIntervals, MaxOf(baseIntervals) % 12)

\* mutant: only chords of four intervals or more are extended
getExtendedIntervalsSevenths(baseIntervals, extend) ==
  IF ~extend \/ Len(baseIntervals) < 4 THEN baseIntervals
  ELSE Append(baseIntervals, (MaxOf(baseIntervals) + 3) % 12)

\* mutant: the added offset takes the place of the top offset
getExtendedIntervalsReplaceTop(baseIntervals, extend) ==
  IF ~extend \/ Len(baseIntervals) < 3 THEN baseIntervals
  ELSE Append(SelectSeq(baseIntervals, LAMBDA x : x # MaxOf(baseIntervals)),
              (MaxOf(baseIntervals) + 3) % 12)

getExtendedIntervals(baseIntervals, extend) ==
  IF ~extend \/ Len(baseIntervals) < 3 THEN baseIntervals
  ELSE LET highest == MaxOf(baseIntervals)
           add == (highest + 3) % 12
       IN Append(baseIntervals, add)

\* mutant: the intervals are not moved to the root
TransposeNoRoot(intervals, root) == [k \in 1..Len(intervals) |-> intervals[k] % 12]

\* intervals.map(x => (root + x) % 12)
Transpose(intervals, root) == [k \in 1..Len(intervals) |-> (root + intervals[k]) % 12]

\* mutant: the last note of the chord is not tested
NotesOkButLast(pattern, notes) == \A k \in 1..(Len(notes) - 1) : pattern[notes[k]] = 1

\* notes.every(n => pattern[n])
NotesOk(pattern, notes) == \A k \in 1..Len(notes) : pattern[notes[k]] = 1

\* the chord pushed for one accepted (type, root)
ChordAt(ct, root, extend) ==
  LET intervals == getExtendedIntervals(ct.intervals, extend)
  IN [root |-> root, rootName |-> swarNames[root + 1],
      notes |-> Transpose(intervals, root), type |-> ct,
      isExtended |-> extend /\ Len(intervals) > Len(ct.intervals)]

\* the body of types.forEach: the roots of one chord type, ascending
ChordsOfType(pattern, ct, extend) ==
  LET ok(root) == /\ pattern[root] = 1
                  /\ NotesOk(pattern, Transpose(getExtendedIntervals(ct.intervals, extend), root))
      accepted == SelectSeq(Roots, ok)
  IN [k \in 1..Len(accepted) |-> ChordAt(ct, accepted[k], extend)]

\* chordId === 'all' || !chordId ? chordTypes : chordTypes.filter(c => c.id === chordId)
TypesFor(chordId) ==
  IF chordId = "all" \/ chordId = "" THEN chordTypes
  ELSE SelectSeq(chordTypes, LAMBDA c : c.id = chordId)

availableChordsForPattern(pattern, chordId, extend) ==
  LET types == TypesFor(chordId)
  IN Flatten([t \in 1..Len(types) |-> ChordsOfType(pattern, types[t], extend)])

(***************************************************************************)
(* Requests and responses.  A response not yet produced has status 0.      *)
(***************************************************************************)
NoResponse == [status |-> 0, body |-> <<>>]

json(statusCode, body) == [status |-> statusCode, body |-> body]

\* chordType values a request can carry: every catalog id, 'all', the empty
\* string and an id the catalog does not have
ChordIds == {chordTypes[t].id : t \in 1..Len(chordTypes)} \cup {"all", "", "power"}

(***************************************************************************)
(* SpecMatch: one call of availableChordsForPattern on any pattern.        *)
(***************************************************************************)
MatchRequest(p, c, e) == [op |-> "matchChords", pattern |-> p, chordId |-> c, extend |-> e]

InitMatch ==
  /\ deployment = "express"
  /\ ragaCache = NullCache
  /\ csv = NoSource
  /\ reads = 0
  /\ \E p \in Patterns, c \in ChordIds, e \in BOOLEAN : request = MatchRequest(p, c, e)
  /\ response = NoResponse

MatchChords ==
  /\ request.op = "matchChords"
  /\ response.status = 0
  /\ response' = json(200, availableChordsForPattern(request.pattern, request.chordId, request.extend))
  /\ UNCHANGED <<deployment, ragaCache, csv, reads, request>>

NextMatch == MatchChords

SpecMatch == InitMatch /\ [][NextMatch]_vars

MatchDone == request.op = "matchChords" /\ response.status = 200

(***************************************************************************)
(* JavaScript values of a JSON body.  An element of intervalsAbs is an     *)
(* integer number, a non-numeric string (ToNumber gives NaN) or null       *)
(* (ToNumber gives 0).  NaN is a number of its own kind.                   *)
(***************************************************************************)
Num(n) == [t |-> "number", v |-> n]
NaN == [t |-> "NaN", v |-> 0]
StrX == [t |-> "string", v |-> 0]
Null == [t |-> "null", v |-> 0]

\* the % operator on integers: the result takes the sign of the dividend
JsRem(a, b) == IF a >= 0 THEN a % b ELSE 0 - ((0 - a) % b)

\* the implicit ToNumber of an arithmetic operand
ToNumber(x) ==
  IF x.t = "number" THEN x
  ELSE IF x.t = "null" THEN Num(0)
  ELSE NaN

(***************************************************************************)
(* CustomMatcher.                                                          *)
(***************************************************************************)
\* mutant: the remainder is taken once, without the + 12 correction
ToPitchClassOnce(x) ==
  LET n == ToNumber(x)
  IN IF n.t = "NaN" THEN NaN ELSE Num(JsRem(n.v, 12))

\* v => ((v % 12) + 12) % 12
ToPitchClass(x) ==
  LET n == ToNumber(x)
  IN IF n.t = "NaN" THEN NaN ELSE Num(JsRem(JsRem(n.v, 12) + 12, 12))

\* intervalsAbs.map(v => ((v % 12) + 12) % 12)
PitchClasses(intervalsAbs) == [k \in 1..Len(intervalsAbs) |-> ToPitchClass(intervalsAbs[k])]

\* pcs.map(iv => (root + iv) % 12)
CustomNotes(pcs, root) ==
  [k \in 1..Len(pcs) |-> IF pcs[k].t = "NaN" THEN NaN ELSE Num(JsRem(root + pcs[k].v, 12))]

\* mutant: notes.some in place of notes.every
CustomNotesOkSome(pattern, notes) ==
  \E k \in 1..Len(notes) :
    /\ notes[k].t = "number"
    /\ notes[k].v \in 0..11
    /\ pattern[notes[k].v] = 1

\* notes.every(i => pattern[i]): an index that is NaN or outside the array
\* reads undefined
CustomNotesOk(pattern, notes) ==
  \A k \in 1..Len(notes) :
    /\ notes[k].t = "number"
    /\ notes[k].v \in 0..11
    /\ pattern[notes[k].v] = 1

findMatches(pattern, pcs) ==
  LET ok(root) == CustomNotesOk(pattern, CustomNotes(pcs, root))
      accepted == SelectSeq(Roots, ok)
  IN [k \in 1..Len(accepted) |->
        [root |-> accepted[k], rootName |-> swarNames[accepted[k] + 1],
         notes |-> [n \in 1..Len(pcs) |-> CustomNotes(pcs, accepted[k])[n].v]]]

(***************************************************************************)
(* The lists of integers a custom-matches request can carry.               *)
(***************************************************************************)
MaxIntervals == 2

\* negative, in-range and above-11 integers
IntervalValues == {-1, 4, 19}

SeqsUpTo(S, n) == UNION {[1..k -> S] : k \in 0..n}

IntegerLists == {[k \in 1..Len(l) |-> Num(l[k])] : l \in SeqsUpTo(IntervalValues, MaxIntervals) \ {<<>>}}

(***************************************************************************)
(* Aggregates: the chord counts of one raga.                               *)
(***************************************************************************)
RECURSIVE SumSeq(_)
SumSeq(s) == IF s = <<>> THEN 0 ELSE Head(s) + SumSeq(Tail(s))

\* mutant: the two directions are counted whatever the mode
PartsOfAlwaysSeparate(separateBool) == <<"aarohPattern", "avrohPattern">>

\* mutant: the combined pattern is counted whatever the mode
PartsOfAlwaysCombined(separateBool) == <<"notePattern">>

\* separateBool ? ['aarohPattern', 'avrohPattern'] : ['notePattern']
PartsOf(separateBool) ==
  IF separateBool THEN <<"aarohPattern", "avrohPattern">> ELSE <<"notePattern">>

\* the two nested forEach loops: basic and extended are summed over every
\* part and every chord type
aggregates(r, separateBool, extendBool) ==
  LET parts == PartsOf(separateBool)
      arr(p, t) == availableChordsForPattern(r[parts[p]], chordTypes[t].id, extendBool)
      basicOf(p, t) == Len(SelectSeq(arr(p, t), LAMBDA c : ~c.isExtended))
      extendedOf(p, t) == Len(SelectSeq(arr(p, t), LAMBDA c : c.isExtended))
      overTypes(f(_, _), p) == SumSeq([t \in 1..Len(chordTypes) |-> f(p, t)])
  IN [basic |-> SumSeq([p \in 1..Len(parts) |-> overTypes(basicOf, p)]),
      extended |-> SumSeq([p \in 1..Len(parts) |-> overTypes(extendedOf, p)])]

(***************************************************************************)
(* The custom-matches handlers of the two deployments.                     *)
(***************************************************************************)
\* the intervalsAbs member of a request body: absent, an array, or a value
\* that is no array (a number stands for those)
Undefined == [t |-> "undefined", v |-> <<>>]
Arr(elems) == [t |-> "array", v |-> elems]

NotFound == json(404, [error |-> "Not found"])
IntervalsRequired == json(400, [error |-> "intervalsAbs required"])

\* !Array.isArray(intervalsAbs) || intervalsAbs.length === 0
IntervalsRefused(intervalsAbs) ==
  intervalsAbs.t # "array" \/ Len(intervalsAbs.v) = 0

\* { aaroh: findMatches(...), avroh: findMatches(...), all: findMatches(...) }
CustomMatchesOf(r, pcs) ==
  [aaroh |-> findMatches(r.aarohPattern, pcs),
   avroh |-> findMatches(r.avrohPattern, pcs),
   all |-> findMatches(r.notePattern, pcs)]

\* a request body that is no JSON text
MalformedBody == [t |-> "malformed", v |-> <<>>]

\* decodeURIComponent succeeds on a path segment: with the characters used
\* here every "%" starts an escape that is no UTF-8 text, which throws
\* URIError; a segment without "%" decodes to itself
Decodable(segment) == "%" \notin Range(segment)

\* Express answers an error raised before the route handler (express.json()
\* on a malformed body, the router on a malformed parameter) with status
\* 400 and its own error page
BadRequestPage == [status |-> 400, body |-> [html |-> "Bad Request"]]

\* the Netlify handler threw: no response object is returned
Thrown(error) == [status |-> -1, body |-> [thrown |-> error]]

\* Express: the body is validated before the repository is read
ExpressCustomResponse(cache, source, name, intervalsAbs) ==
  IF intervalsAbs.t = "malformed" \/ ~Decodable(name) THEN BadRequestPage
  ELSE IF IntervalsRefused(intervalsAbs) THEN IntervalsRequired
  ELSE LET ragas == getRagas(cache, source).ragas
           i == FindRaga(ragas, name)
       IN IF i = 0 THEN NotFound
          ELSE json(200, CustomMatchesOf(ragas[i], PitchClasses(intervalsAbs.v)))

\* Netlify: the raga is looked up before the body is parsed and validated
NetlifyCustomResponse(cache, source, name, intervalsAbs) ==
  IF ~Decodable(name) THEN Thrown("URIError")
  ELSE LET ragas == getRagas(cache, source).ragas
           i == FindRaga(ragas, name)
       IN IF i = 0 THEN NotFound
          ELSE IF intervalsAbs.t = "malformed" THEN Thrown("SyntaxError")
          ELSE IF IntervalsRefused(intervalsAbs) THEN IntervalsRequired
          ELSE json(200, CustomMatchesOf(ragas[i], PitchClasses(intervalsAbs.v)))

(***************************************************************************)
(* Spec: one server process (Express or the Netlify function) serving      *)
(* requests one after another.                                             *)
(***************************************************************************)
Deployments == {"express", "netlify"}

\* the data file of a process: missing, or holding RagaRows
ServerSources == {NoSource, Source(TRUE, RagaRows)}

\* :name values: a raga in another letter case, a name two rows share up to
\* case, and a name no raga has
RequestNames == {<<"b", "A">>, <<"a", "b">>, <<"A">>}

\* elements an intervalsAbs array can hold
JsElems == {Num(-1), StrX, Null}

IntervalBodies ==
  {Undefined, Num(5)} \cup {Arr(l) : l \in SeqsUpTo(JsElems, MaxIntervals)}

NoRequest == [op |-> "none"]

Init ==
  /\ deployment \in Deployments
  /\ ragaCache = NullCache
  /\ csv \in ServerSources
  /\ reads = 0
  /\ request = NoRequest
  /\ response = NoResponse

(***************************************************************************)
(* RagaAnalyzer.                                                           *)
(***************************************************************************)
swaraGroups == <<{0}, {1, 2}, {3, 4}, {5, 6}, {7}, {8, 9}, {10, 11}>>

countSwaras(pattern) ==
  Cardinality({g \in 1..Len(swaraGroups) : \E idx \in swaraGroups[g] : pattern[idx] = 1})

\* `${count} notes` for the counts a pattern can have
NotesLabel == <<"1 notes", "2 notes", "3 notes", "4 notes", "5 notes", "6 notes", "7 notes">>

getJati(count) ==
  IF count = 5 THEN "Audav (Pentatonic)"
  ELSE IF count = 6 THEN "Shadav (Hexatonic)"
  ELSE IF count = 7 THEN "Sampoorna (Heptatonic)"
  ELSE IF count = 0 THEN "0 notes"
  ELSE NotesLabel[count]

(***************************************************************************)
(* RagaSearchEngine: app.get('/api/raga-search').                          *)
(***************************************************************************)
\* mutant: noteCount is taken from the aaroh pattern
EnrichFromAaroh(r) ==
  [name |-> r.name, notePattern |-> r.notePattern,
   aarohPattern |-> r.aarohPattern, avrohPattern |-> r.avrohPattern,
   noteCount |-> countSwaras(r.aarohPattern),
   aarohJati |-> getJati(countSwaras(r.aarohPattern)),
   avrohJati |-> getJati(countSwaras(r.avrohPattern))]

\* { ...r, noteCount, aarohJati, avrohJati }
Enrich(r) ==
  [name |-> r.name, notePattern |-> r.notePattern,
   aarohPattern |-> r.aarohPattern, avrohPattern |-> r.avrohPattern,
   noteCount |-> countSwaras(r.notePattern),
   aarohJati |-> getJati(countSwaras(r.aarohPattern)),
   avrohJati |-> getJati(countSwaras(r.avrohPattern))]

Enriched(ragas) == [k \in 1..Len(ragas) |-> Enrich(ragas[k])]

\* the name filter
NameStage(filtered, q) ==
  IF q.search # <<>> /\ trim(q.search) # <<>>
  THEN SelectSeq(filtered, LAMBDA r : includes(toLowerCase(r.name), toLowerCase(trim(q.search))))
  ELSE filtered

\* parseInt(scaleType, 10) of the values used: a number for '5', '6', '7',
\* NaN (no entry) for any other text
ScaleTargets == [five |-> 5, six |-> 6, seven |-> 7]

ScaleKey(scaleType) ==
  CASE scaleType = "5" -> "five"
    [] scaleType = "6" -> "six"
    [] scaleType = "7" -> "seven"
    [] OTHER -> "NaN"

\* the scale type filter (by swara groups)
ScaleStage(filtered, q) ==
  IF q.scaleType # "any" /\ ScaleKey(q.scaleType) \in DOMAIN ScaleTargets
  THEN SelectSeq(filtered, LAMBDA r : r.noteCount = ScaleTargets[ScaleKey(q.scaleType)])
  ELSE filtered

\* mutant: the tonic is not added to the selection
WithSaOmitted(includeSet) == includeSet

\* const withSa = new Set(includeSet); withSa.add(0)
WithSa(includeSet) == includeSet \cup {0}

\* mutant: extra notes of the pattern are not looked at
exactMatchNoExtras(pattern, includeSet) ==
  \A idx \in WithSa(includeSet) : pattern[idx] = 1

exactMatch(pattern, includeSet) ==
  \A idx \in 0..11 : pattern[idx] = (IF idx \in WithSa(includeSet) THEN 1 ELSE 0)

\* mutant: the include test runs for an empty selection too
HasSelectionAlways(set) == TRUE

\* set.size > 0
HasSelection(set) == Cardinality(set) > 0

\* one include step on the pattern `part` of the ragas
IncludeStep(filtered, includeSet, searchMode, part) ==
  IF HasSelection(includeSet)
  THEN IF searchMode = "exact"
       THEN SelectSeq(filtered, LAMBDA r : exactMatch(r[part], includeSet))
       ELSE SelectSeq(filtered, LAMBDA r : \A i \in WithSa(includeSet) : r[part][i] = 1)
  ELSE filtered

\* one exclude step on the pattern `part` of the ragas
ExcludeStep(filtered, excludeSet, part) ==
  IF Cardinality(excludeSet) > 0
  THEN SelectSeq(filtered, LAMBDA r : \A i \in excludeSet : r[part][i] = 0)
  ELSE filtered

\* String(separate).toLowerCase() === 'true' on the values 'true', 'false'
separateBool(q) == q.separate = "true"

\* the pitch-class stage: if (separateBool) { ... } else { ... }
PitchStage(filtered, q) ==
  IF separateBool(q)
  THEN ExcludeStep(
         IncludeStep(
           ExcludeStep(
             IncludeStep(filtered, q.selASet, q.searchMode, "aarohPattern"),
             q.excASet, "aarohPattern"),
           q.selVSet, q.searchMode, "avrohPattern"),
         q.excVSet, "avrohPattern")
  ELSE ExcludeStep(
         IncludeStep(filtered, q.selectedSet, q.searchMode, "notePattern"),
         q.excludedSet, "notePattern")

\* the handler's pipeline on the repository list
ragaSearch(ragas, q) == PitchStage(ScaleStage(NameStage(Enriched(ragas), q), q), q)

(***************************************************************************)
(* SpecSearch: one raga-search request against a freshly started process.  *)
(***************************************************************************)
Reverse(seq) == [k \in 1..Len(seq) |-> seq[Len(seq) + 1 - k]]

\* data files: the rows, the rows in reverse order, rows occurring twice,
\* and a missing file
SearchSources ==
  {Source(TRUE, RagaRows), Source(TRUE, Reverse(RagaRows)),
   Source(TRUE, SubSeq(RagaRows, 2, 5) \o SubSeq(RagaRows, 1, 3)), NoSource}

\* the search text: none, a letter, and a padded mixed-case fragment
SearchTexts == {<<>>, <<"b">>, <<" ", "a", "B", " ">>}

ScaleTypes == {"any", "5", "x"}

SearchModes == {"contains", "exact"}

\* the pitch-class sets a query parameter selects
NoteSets == {{}, {4}, {0, 7}}

Query(search, scaleType, searchMode, separate, sel, exc, selA, excA, selV, excV) ==
  [op |-> "search", search |-> search, scaleType |-> scaleType, searchMode |-> searchMode,
   separate |-> separate, selectedSet |-> sel, excludedSet |-> exc,
   selASet |-> selA, excASet |-> excA, selVSet |-> selV, excVSet |-> excV]

InitSearch ==
  /\ deployment = "express"
  /\ ragaCache = NullCache
  /\ csv \in SearchSources
  /\ reads = 0
  /\ \E search \in SearchTexts, scaleType \in ScaleTypes, searchMode \in SearchModes,
        separate \in {"true", "false"},
        sel \in NoteSets, exc \in NoteSets, selA \in NoteSets, excA \in NoteSets,
        selV \in NoteSets, excV \in NoteSets :
       request = Query(search, scaleType, searchMode, separate, sel, exc, selA, excA, selV, excV)
  /\ response = NoResponse

RagaSearch ==
  /\ request.op = "search"
  /\ response.status = 0
  /\ ragaCache' = getRagas(ragaCache, csv)
  /\ reads' = readsAfter(ragaCache, reads)
  /\ response' = json(200, ragaSearch(getRagas(ragaCache, csv).ragas, request))
  /\ UNCHANGED <<deployment, csv, request>>

NextSearch == RagaSearch

SpecSearch == InitSearch /\ [][NextSearch]_vars

SearchDone == request.op = "search" /\ response.status = 200

(***************************************************************************)
(* The chords route.                                                       *)
(***************************************************************************)
westernNotesFlat == <<"C", "Db", "D", "Eb", "E", "F", "Gb", "G", "Ab", "A", "Bb", "B">>

\* a query parameter the request does not carry
QueryAbsent == "(absent)"

\* parseInt(s, 10) of the values used: a number for '2' and '4', NaN for any
\* other text
parseInt(s) ==
  CASE s = "2" -> Num(2)
    [] s = "4" -> Num(4)
    [] OTHER -> NaN

filterChordsByNote(chords, selectedNote, mode) ==
  IF selectedNote.t = "null" THEN chords
  ELSE IF mode = "any" THEN SelectSeq(chords, LAMBDA c : selectedNote.v \in Range(c.notes))
  ELSE SelectSeq(chords, LAMBDA c : c.root = selectedNote.v)

\* the quality suffix of a chord type id (the flat sign written "b")
Quality(type) ==
  CASE type.id = "major" -> ""
    [] type.id = "minor" -> "m"
    [] type.id = "diminished" -> "dim"
    [] type.id = "augmented" -> "aug"
    [] type.id = "sus4" -> "sus4"
    [] type.id = "sus2" -> "sus2"
    [] type.id = "major7" -> "maj7"
    [] type.id = "minor7" -> "m7"
    [] type.id = "dom7" -> "7"
    [] type.id = "dim7" -> "dim7"
    [] type.id = "m7b5" -> "m7b5"
    [] type.id = "maj6" -> "6"
    [] type.id = "min6" -> "m6"
    [] OTHER -> type.name

\* westernChordNotes.join(' - ')
RECURSIVE JoinNotes(_)
JoinNotes(names) ==
  IF names = <<>> THEN ""
  ELSE IF Len(names) = 1 THEN names[1]
  ELSE names[1] \o " - " \o JoinNotes(Tail(names))

attachWesternNames(chords, tonicIndex) ==
  IF tonicIndex.t = "null" THEN chords
  ELSE [k \in 1..Len(chords) |->
          LET chord == chords[k]
              rootNote == westernNotesFlat[((chord.root + tonicIndex.v) % 12) + 1]
              westernChordNotes == [n \in 1..Len(chord.notes) |->
                                      westernNotesFlat[((chord.notes[n] + tonicIndex.v) % 12) + 1]]
          IN [root |-> chord.root, rootName |-> chord.rootName, notes |-> chord.notes,
              type |-> chord.type, isExtended |-> chord.isExtended,
              westernName |-> rootNote \o Quality(chord.type) \o ": " \o JoinNotes(westernChordNotes)]]

\* the chords handler once the raga is found
chordsOf(r, q) ==
  LET extendBool == q.extend = "true"
      pattern == IF q.part = "aaroh" THEN r.aarohPattern
                 ELSE IF q.part = "avroh" THEN r.avrohPattern
                 ELSE r.notePattern
      chords == availableChordsForPattern(pattern, q.chordType, extendBool)
      sel == IF q.selectedNote # QueryAbsent THEN parseInt(q.selectedNote) ELSE Null
      tnx == IF q.tonic # QueryAbsent THEN parseInt(q.tonic) ELSE Null
      picked == IF sel.t # "NaN" /\ sel.t # "null"
                THEN filterChordsByNote(chords, sel, q.filterMode) ELSE chords
  IN IF tnx.t # "NaN" /\ tnx.t # "null" THEN attachWesternNames(picked, tnx) ELSE picked

\* the aggregates handler once the raga is found
aggregatesOf(r, q) == aggregates(r, q.separate = "true", q.extend = "true")

(***************************************************************************)
(* The routers: the response of each deployment to a request, and whether  *)
(* serving it calls getRagas.                                              *)
(***************************************************************************)
\* ragas.map(r => ({ name: r.name }))
NamesOf(ragas) == [k \in 1..Len(ragas) |-> [name |-> ragas[k].name]]

\* the routes that need no raga name
CommonResponse(cache, source, req) ==
  CASE req.op = "health" -> json(200, [ok |-> TRUE])
    [] req.op = "chordTypes" -> json(200, chordTypes)
    [] req.op = "list" -> json(200, NamesOf(getRagas(cache, source).ragas))
    [] req.op = "search" -> json(200, ragaSearch(getRagas(cache, source).ragas, req))

\* what a route answers for the raga it found (on Netlify the raga route is
\* taken when the path is the re-encoded name, which holds for the names
\* used here: encodeURIComponent leaves letters as they are)
FoundResponse(r, req) ==
  CASE req.op = "raga" -> json(200, r)
    [] req.op = "chords" -> json(200, chordsOf(r, req))
    [] req.op = "aggregates" -> json(200, aggregatesOf(r, req))

Unnamed == {"health", "chordTypes", "list", "search"}

ExpressResponse(cache, source, req) ==
  IF req.op \in Unnamed THEN CommonResponse(cache, source, req)
  ELSE IF req.op = "custom"
  THEN ExpressCustomResponse(cache, source, req.name, req.intervalsAbs)
  ELSE IF ~Decodable(req.name) THEN BadRequestPage
  ELSE LET ragas == getRagas(cache, source).ragas
           i == FindRaga(ragas, req.name)
       IN IF i = 0 THEN NotFound ELSE FoundResponse(ragas[i], req)

\* Express calls getRagas inside the route handler only
ExpressLoads(req) ==
  IF req.op \in {"health", "chordTypes"} THEN FALSE
  ELSE IF req.op \in {"list", "search"} THEN TRUE
  ELSE IF req.op = "custom"
  THEN Decodable(req.name) /\ ~IntervalsRefused(req.intervalsAbs)
  ELSE Decodable(req.name)

NetlifyResponse(cache, source, req) ==
  IF req.op \in Unnamed THEN CommonResponse(cache, source, req)
  ELSE IF req.op = "custom"
  THEN NetlifyCustomResponse(cache, source, req.name, req.intervalsAbs)
  ELSE IF ~Decodable(req.name) THEN Thrown("URIError")
  ELSE LET ragas == getRagas(cache, source).ragas
           i == FindRaga(ragas, req.name)
       IN IF i = 0 THEN NotFound ELSE FoundResponse(ragas[i], req)

\* the Netlify handler calls getRagas before it looks at the name
NetlifyLoads(req) == req.op \notin {"health", "chordTypes"}

(***************************************************************************)
(* The requests served and the actions of Spec.                            *)
(***************************************************************************)
\* the :name segment of a request path: the names above and a segment with a
\* malformed escape
PathSegments == RequestNames \cup {<<"%", "A">>}

\* the body of a custom-matches request
RequestBodies == IntervalBodies \cup {MalformedBody}

CustomRequests ==
  {[op |-> "custom", name |-> name, intervalsAbs |-> intervalsAbs] :
     name \in PathSegments, intervalsAbs \in RequestBodies}

RagaRequests == {[op |-> "raga", name |-> name] : name \in PathSegments}

ChordsRequests ==
  {[op |-> "chords", name |-> name, part |-> part, chordType |-> chordType,
    extend |-> extend, selectedNote |-> note[1], filterMode |-> note[2], tonic |-> tonic] :
     name \in PathSegments, part \in {"all", "avroh"}, chordType \in {"all"},
     extend \in {"true", "false"},
     note \in {<<QueryAbsent, "root">>, <<"4", "root">>, <<"4", "any">>, <<"x", "any">>},
     tonic \in {QueryAbsent, "2"}}

AggregatesRequests ==
  {[op |-> "aggregates", name |-> name, separate |-> separate, extend |-> extend] :
     name \in PathSegments, separate \in {"true", "false"}, extend \in {"true", "false"}}

SearchRequests ==
  {Query(search, scaleType, searchMode, separate, sel, {}, selA, {}, {}, {}) :
     search \in {<<>>, <<"b">>}, scaleType \in {"any"}, searchMode \in SearchModes,
     separate \in {"true", "false"}, sel \in {{}, {4}}, selA \in {{}, {4}}}

\* one request served by the Express server
ExpressServes(req) ==
  /\ request' = req
  /\ response' = ExpressResponse(ragaCache, csv, req)
  /\ ragaCache' = IF ExpressLoads(req) THEN getRagas(ragaCache, csv) ELSE ragaCache
  /\ reads' = IF ExpressLoads(req) THEN readsAfter(ragaCache, reads) ELSE reads
  /\ UNCHANGED <<deployment, csv>>

\* one invocation of the Netlify handler
NetlifyServes(req) ==
  /\ request' = req
  /\ response' = NetlifyResponse(ragaCache, csv, req)
  /\ ragaCache' = IF NetlifyLoads(req) THEN getRagas(ragaCache, csv) ELSE ragaCache
  /\ reads' = IF NetlifyLoads(req) THEN readsAfter(ragaCache, reads) ELSE reads
  /\ UNCHANGED <<deployment, csv>>

\* app.get('/api/health')
ExpressHealth ==
  /\ deployment = "express"
  /\ ExpressServes([op |-> "health"])

\* app.get('/api/chord-types')
ExpressChordTypes ==
  /\ deployment = "express"
  /\ ExpressServes([op |-> "chordTypes"])

\* app.get('/api/ragas')
ExpressListRagas ==
  /\ deployment = "express"
  /\ ExpressServes([op |-> "list"])

\* app.get('/api/ragas/:name')
ExpressGetRaga ==
  /\ deployment = "express"
  /\ \E req \in RagaRequests : ExpressServes(req)

\* app.get('/api/raga-search')
ExpressRagaSearch ==
  /\ deployment = "express"
  /\ \E req \in SearchRequests : ExpressServes(req)

\* app.get('/api/ragas/:name/chords')
ExpressChords ==
  /\ deployment = "express"
  /\ \E req \in ChordsRequests : ExpressServes(req)

\* app.post('/api/ragas/:name/custom-matches')
ExpressCustomMatches ==
  /\ deployment = "express"
  /\ \E req \in CustomRequests : ExpressServes(req)

\* app.get('/api/ragas/:name/aggregates')
ExpressAggregates ==
  /\ deployment = "express"
  /\ \E req \in AggregatesRequests : ExpressServes(req)

\* handler(event) for /api/health
NetlifyHealth ==
  /\ deployment = "netlify"
  /\ NetlifyServes([op |-> "health"])

\* handler(event) for /api/chord-types
NetlifyChordTypes ==
  /\ deployment = "netlify"
  /\ NetlifyServes([op |-> "chordTypes"])

\* handler(event) for /api/ragas
NetlifyListRagas ==
  /\ deployment = "netlify"
  /\ NetlifyServes([op |-> "list"])

\* handler(event) for /api/ragas/<name>
NetlifyGetRaga ==
  /\ deployment = "netlify"
  /\ \E req \in RagaRequests : NetlifyServes(req)

\* handler(event) for /api/raga-search
NetlifyRagaSearch ==
  /\ deployment = "netlify"
  /\ \E req \in SearchRequests : NetlifyServes(req)

\* handler(event) for /api/ragas/<name>/chords
NetlifyChords ==
  /\ deployment = "netlify"
  /\ \E req \in ChordsRequests : NetlifyServes(req)

\* handler(event) for POST /api/ragas/<name>/custom-matches
NetlifyCustomMatches ==
  /\ deployment = "netlify"
  /\ \E req \in CustomRequests : NetlifyServes(req)

\* handler(event) for /api/ragas/<name>/aggregates
NetlifyAggregates ==
  /\ deployment = "netlify"
  /\ \E req \in AggregatesRequests : NetlifyServes(req)

\* the environment: the data file is removed, or put (back) in place; the
\* process reads it only inside getRagas
SourceChanges ==
  /\ csv' \in ServerSources \ {csv}
  /\ UNCHANGED <<deployment, ragaCache, reads, request, response>>

Next ==
  \/ ExpressHealth
  \/ ExpressChordTypes
  \/ ExpressListRagas
  \/ ExpressGetRaga
  \/ ExpressRagaSearch
  \/ ExpressChords
  \/ ExpressCustomMatches
  \/ ExpressAggregates
  \/ NetlifyHealth
  \/ NetlifyChordTypes
  \/ NetlifyListRagas
  \/ NetlifyGetRaga
  \/ NetlifyRagaSearch
  \/ NetlifyChords
  \/ NetlifyCustomMatches
  \/ NetlifyAggregates
  \/ SourceChanges

Spec == Init /\ [][Next]_vars

(***************************************************************************)
(* The data file of the one-request specifications: one raga, "A", whose   *)
(* two columns spell out chosen patterns.                                  *)
(***************************************************************************)
\* the letter of each pitch class in a column
swaraLetters == <<"S", "r", "R", "g", "G", "m", "M", "P", "d", "D", "n", "N">>

\* a column of the file that sounds exactly the notes of `pattern`: their
\* letters joined by hyphens, or a letter that is no swara when there is
\* none (an empty column would make the row be skipped)
ColumnOf(pattern) ==
  LET present == SelectSeq([i \in 1..12 |-> i - 1], LAMBDA i : pattern[i] = 1)
      n == Len(present)
  IN IF n = 0 THEN <<"x">>
     ELSE [k \in 1..(2 * n - 1) |->
             IF k % 2 = 1 THEN swaraLetters[present[(k + 1) \div 2] + 1] ELSE "-"]

PatternOf(S) == [i \in 0..11 |-> IF i \in S THEN 1 ELSE 0]

FileWith(aaroh, avroh) == Source(TRUE, <<Row(<<"A">>, ColumnOf(aaroh), ColumnOf(avroh))>>)

(***************************************************************************)
(* SpecCustom: one custom-matches request to a freshly started Express     *)
(* server whose file holds a raga with any ascending pattern, for any      *)
(* non-empty list of integers.                                             *)
(***************************************************************************)
InitCustom ==
  /\ deployment = "express"
  /\ ragaCache = NullCache
  /\ \E a \in Patterns : csv = FileWith(a, PatternOf({0}))
  /\ reads = 0
  /\ \E l \in IntegerLists :
       request = [op |-> "custom", name |-> <<"a">>, intervalsAbs |-> Arr(l)]
  /\ response = NoResponse

\* app.post('/api/ragas/:name/custom-matches') on the request in hand
MatchCustom ==
  /\ request.op = "custom"
  /\ response.status = 0
  /\ response' = ExpressResponse(ragaCache, csv, request)
  /\ ragaCache' = IF ExpressLoads(request) THEN getRagas(ragaCache, csv) ELSE ragaCache
  /\ reads' = IF ExpressLoads(request) THEN readsAfter(ragaCache, reads) ELSE reads
  /\ UNCHANGED <<deployment, csv, request>>

NextCustom == MatchCustom

SpecCustom == InitCustom /\ [][NextCustom]_vars

CustomDone == request.op = "custom" /\ response.status = 200

(***************************************************************************)
(* SpecAggregate: one aggregates request to a freshly started Express      *)
(* server whose file holds a raga whose ascending pattern is any pattern   *)
(* with Sa and whose descending pattern is one of two.                     *)
(***************************************************************************)
\* ascending patterns: every pattern in which Sa sounds
AscentPatterns == {p \in Patterns : p[0] = 1}

\* descending patterns: Sa alone and a major scale
DescentPatterns == {PatternOf({0}), PatternOf({0, 2, 4, 5, 7, 9, 11})}

InitAggregate ==
  /\ deployment = "express"
  /\ ragaCache = NullCache
  /\ \E a \in AscentPatterns, d \in DescentPatterns : csv = FileWith(a, d)
  /\ reads = 0
  /\ \E s \in {"true", "false"}, e \in {"true", "false"} :
       request = [op |-> "aggregates", name |-> <<"a">>, separate |-> s, extend |-> e]
  /\ response = NoResponse

\* app.get('/api/ragas/:name/aggregates') on the request in hand
Aggregate ==
  /\ request.op = "aggregates"
  /\ response.status = 0
  /\ response' = ExpressResponse(ragaCache, csv, request)
  /\ ragaCache' = IF ExpressLoads(request) THEN getRagas(ragaCache, csv) ELSE ragaCache
  /\ reads' = IF ExpressLoads(request) THEN readsAfter(ragaCache, reads) ELSE reads
  /\ UNCHANGED <<deployment, csv, request>>

NextAggregate == Aggregate

SpecAggregate == InitAggregate /\ [][NextAggregate]_vars

AggregateDone == request.op = "aggregates" /\ response.status = 200


(***************************************************************************)
(* Claims about the chord matcher (checked under SpecMatch).               *)
(***************************************************************************)
\* the offsets a template contributes, read off the catalog entry: its own
\* intervals, and with extension the one offset 3 above its largest
OffsetsOf(T, extend) ==
  LET own == Range(T.intervals)
      top == CHOOSE m \in own : \A x \in own : x <= m
  IN IF extend /\ Cardinality(own) >= 3 THEN own \cup {(top + 3) % 12} ELSE own

PassesFilter(T, chordId) == chordId \in {"all", ""} \/ T.id = chordId

\* C1: every returned chord lies inside the pattern: its root is present and
\* so is every pitch class (root + i) mod 12 for i in the template's
\* (extended, when extend is true) intervals.
C1_Soundness ==
  MatchDone =>
    \A k \in 1..Len(response.body) :
      LET c == response.body[k]
      IN /\ c.root \in Present(request.pattern)
         /\ \A i \in OffsetsOf(c.type, request.extend) :
              ((c.root + i) % 12) \in Present(request.pattern)

C1_Witness ==
  /\ MatchDone
  /\ request.extend
  /\ request.chordId = "all"
  /\ Len(response.body) >= 2
  /\ Present(request.pattern) # 0..11

\* C2: the result holds exactly one entry for every (template, root) with
\* the template passing the filter, the root present and every transposed
\* (possibly extended) note present, no other entry, and the entries are
\* ordered by catalog position first and ascending root second.
ValidPair(t, r) ==
  /\ PassesFilter(chordTypes[t], request.chordId)
  /\ r \in Present(request.pattern)
  /\ \A i \in OffsetsOf(chordTypes[t], request.extend) :
       ((r + i) % 12) \in Present(request.pattern)

CatalogIndex(T) == CHOOSE t \in 1..Len(chordTypes) : chordTypes[t] = T

C2_CompleteOrdered ==
  MatchDone =>
    LET body == response.body
    IN /\ \A k \in 1..Len(body) :
            /\ body[k].type \in Range(chordTypes)
            /\ body[k].root \in 0..11
            /\ ValidPair(CatalogIndex(body[k].type), body[k].root)
       /\ \A t \in 1..Len(chordTypes), r \in 0..11 :
            ValidPair(t, r) =>
              Cardinality({k \in 1..Len(body) :
                             body[k].type = chordTypes[t] /\ body[k].root = r}) = 1
       /\ \A j, k \in 1..Len(body) :
            j < k =>
              \/ CatalogIndex(body[j].type) < CatalogIndex(body[k].type)
              \/ /\ CatalogIndex(body[j].type) = CatalogIndex(body[k].type)
                 /\ body[j].root < body[k].root

C2_Witness ==
  /\ MatchDone
  /\ request.chordId = "all"
  /\ \E j, k \in 1..Len(response.body) :
       j < k /\ response.body[j].type # response.body[k].type
  /\ \E j, k \in 1..Len(response.body) :
       /\ j < k
       /\ response.body[j].type = response.body[k].type
       /\ response.body[j].root = 2
       /\ response.body[k].root = 11

\* C3: with extend true (every catalog template has at least 3 intervals)
\* a chord's notes are the template's intervals followed by the single
\* offset (max + 3) mod 12, all transposed by the root, and isExtended is
\* true, also when that offset is one the template already has; with extend
\* false the notes are the template's intervals transposed and isExtended
\* is false.
C3_ExtensionRule ==
  MatchDone =>
    \A k \in 1..Len(response.body) :
      LET c == response.body[k]
          I == c.type.intervals
          top == CHOOSE m \in Range(I) : \A x \in Range(I) : x <= m
      IN IF request.extend /\ Len(I) >= 3
         THEN /\ Len(c.notes) = Len(I) + 1
              /\ \A n \in 1..Len(I) : c.notes[n] = (c.root + I[n]) % 12
              /\ c.notes[Len(I) + 1] = (c.root + ((top + 3) % 12)) % 12
              /\ c.isExtended = TRUE
         ELSE /\ Len(c.notes) = Len(I)
              /\ \A n \in 1..Len(I) : c.notes[n] = (c.root + I[n]) % 12
              /\ c.isExtended = FALSE

\* an extended dim7 chord: the synthesized offset (9 + 3) mod 12 = 0 is one
\* the template already has, and the chord is still flagged extended
C3_Witness ==
  /\ MatchDone
  /\ request.extend
  /\ \E k \in 1..Len(response.body) :
       /\ response.body[k].type.id = "dim7"
       /\ response.body[k].isExtended
       /\ Len(response.body[k].notes) = 5

\* C4 as stated: the notes of every returned chord are pairwise distinct.
PairwiseDistinct(notes) ==
  \A a, b \in 1..Len(notes) : a # b => notes[a] # notes[b]

C4_NotesDistinct ==
  MatchDone =>
    \A k \in 1..Len(response.body) : PairwiseDistinct(response.body[k].notes)

\* C4 amended: the notes are pairwise distinct except for an extended chord
\* of dim7, maj6 or min6, where the appended note is the root again: the
\* root pitch class then occurs exactly twice (first and last) and the notes
\* before the appended one are pairwise distinct.
WrapIds == {"dim7", "maj6", "min6"}

C4_NotesDistinctUnlessWrap ==
  MatchDone =>
    \A k \in 1..Len(response.body) :
      LET c == response.body[k]
          n == Len(c.notes)
      IN IF request.extend /\ c.type.id \in WrapIds
         THEN /\ c.notes[n] = c.root
              /\ c.notes[1] = c.root
              /\ PairwiseDistinct(SubSeq(c.notes, 1, n - 1))
              /\ ~PairwiseDistinct(c.notes)
         ELSE PairwiseDistinct(c.notes)

C4_Witness ==
  /\ MatchDone
  /\ request.extend
  /\ \E k \in 1..Len(response.body) :
       response.body[k].type.id = "maj6" /\ response.body[k].root = 5
  /\ \E k \in 1..Len(response.body) :
       response.body[k].type.id = "major7" /\ response.body[k].isExtended

(***************************************************************************)
(* Claims about the custom matcher (checked under SpecCustom).             *)
(***************************************************************************)
\* C5: each integer v of the list is normalized to its pitch class v mod 12
\* in 0..11 (negative and above-11 values included); the result lists, in
\* ascending order and once each, exactly the roots r in 0..11 for which
\* every (r + normalized v) mod 12 is present in the pattern, whether or not
\* r itself is present, each with its transposed notes.
C5_CustomAcceptance ==
  CustomDone =>
    LET raga == ragaCache.ragas[1]
        vs == [k \in 1..Len(request.intervalsAbs.v) |-> request.intervalsAbs.v[k].v]
        pc(k) == vs[k] % 12
        fits(P, r) == \A k \in 1..Len(vs) : ((r + pc(k)) % 12) \in Present(P)
        right(body, P) ==
          /\ {body[j].root : j \in 1..Len(body)} = {r \in 0..11 : fits(P, r)}
          /\ \A i, j \in 1..Len(body) : i < j => body[i].root < body[j].root
          /\ \A j \in 1..Len(body) :
               body[j].notes = [k \in 1..Len(vs) |-> (body[j].root + pc(k)) % 12]
    IN /\ \A k \in 1..Len(vs) : pc(k) \in 0..11
       /\ right(response.body.aaroh, raga.aarohPattern)
       /\ right(response.body.avroh, raga.avrohPattern)
       /\ right(response.body.all, raga.notePattern)

\* a negative interval in the list, and an accepted root that is itself
\* absent from the pattern
C5_Witness ==
  /\ CustomDone
  /\ \E k \in 1..Len(request.intervalsAbs.v) : request.intervalsAbs.v[k].v < 0
  /\ \E k \in 1..Len(request.intervalsAbs.v) : request.intervalsAbs.v[k].v > 11
  /\ \E j \in 1..Len(response.body.aaroh) :
       response.body.aaroh[j].root \notin Present(ragaCache.ragas[1].aarohPattern)
  /\ response.body.aaroh # response.body.all

(***************************************************************************)
(* Claims about the custom-matches operation (checked under Spec).         *)
(***************************************************************************)
\* an intervalsAbs that is absent, no list, an empty list, or a list with
\* an element that is not an integer
InvalidIntervals(intervalsAbs) ==
  \/ intervalsAbs.t # "array"
  \/ Len(intervalsAbs.v) = 0
  \/ \E k \in 1..Len(intervalsAbs.v) : intervalsAbs.v[k].t # "number"

\* C6: a custom-match request whose intervalsAbs is absent, not a list, an
\* empty list or a list holding a non-integer is never answered with a
\* success result.
C6_InvalidNeverSucceeds ==
  (request.op = "custom" /\ InvalidIntervals(request.intervalsAbs)) => response.status # 200

(***************************************************************************)
(* Claims about the raga search (checked under SpecSearch).                *)
(***************************************************************************)
\* the repository list the request was served from
Repository == ragaCache.ragas

\* a returned record without its enrichment
Core(r) == [name |-> r.name, notePattern |-> r.notePattern,
            aarohPattern |-> r.aarohPattern, avrohPattern |-> r.avrohPattern]

Cores(records) == [k \in 1..Len(records) |-> Core(records[k])]

\* no name filter and no scale-size filter in the request
NoNameOrScaleFilter == request.search = <<>> /\ request.scaleType = "any"

ExactCombinedEmptyInclude ==
  /\ SearchDone
  /\ request.searchMode = "exact"
  /\ request.separate = "false"
  /\ request.selectedSet = {}
  /\ NoNameOrScaleFilter

\* C7 as stated: exact-set mode, combined, empty includeSet: only ragas
\* whose combinedPattern is exactly {0} are returned.
C7_EmptyExactOnlySa ==
  ExactCombinedEmptyInclude =>
    \A k \in 1..Len(response.body) : Present(response.body[k].notePattern) = {0}

\* C7 amended: exact-set mode, combined, empty includeSet applies no include
\* test at all: the result is every raga, in repository order, whose
\* combinedPattern has all excluded pitch classes absent (every raga when
\* the exclude set is empty too).
C7_EmptyExactNoIncludeTest ==
  ExactCombinedEmptyInclude =>
    Cores(response.body) =
      SelectSeq(Repository, LAMBDA r : Present(r.notePattern) \cap request.excludedSet = {})

C7_Witness ==
  /\ ExactCombinedEmptyInclude
  /\ request.excludedSet = {}
  /\ Len(response.body) >= 2
  /\ \E k \in 1..Len(response.body) : Present(response.body[k].notePattern) # {0}

\* the request with every exclude set emptied
WithoutExcludes(q) == [q EXCEPT !.excludedSet = {}, !.excASet = {}, !.excVSet = {}]

\* the (pattern, include set, exclude set) triples the request's direction
\* mode puts to use
PartsInUse ==
  IF request.separate = "true"
  THEN {<<"aarohPattern", request.selASet, request.excASet>>,
        <<"avrohPattern", request.selVSet, request.excVSet>>}
  ELSE {<<"notePattern", request.selectedSet, request.excludedSet>>}

\* C8 as stated, its relational half: under exact-set the exclude sets
\* change nothing, so the result is the one the same criteria give with
\* every exclude set emptied.  (The other half, every returned pattern
\* equal to includeSet with the tonic added, fails for an empty include set
\* as C7 does.)
C8_ExactIgnoresExcludes ==
  (SearchDone /\ request.searchMode = "exact") =>
    response.body = ragaSearch(Repository, WithoutExcludes(request))

\* C8 amended: under exact-set the exclude sets are still applied.  They
\* change nothing when, for each pattern in use, the exclude set is empty or
\* the include set is non-empty and the exclude set is disjoint from
\* includeSet with the tonic added; an exclude set that meets a non-empty
\* includeSet with the tonic added empties the result; and a returned raga's
\* pattern equals includeSet with the tonic added whenever that include set
\* is non-empty.
C8_ExactExcludesStillApplied ==
  (SearchDone /\ request.searchMode = "exact") =>
    /\ (\A u \in PartsInUse : u[3] = {} \/ (u[2] # {} /\ u[3] \cap (u[2] \cup {0}) = {}))
         => response.body = ragaSearch(Repository, WithoutExcludes(request))
    /\ (\E u \in PartsInUse : u[2] # {} /\ u[3] \cap (u[2] \cup {0}) # {})
         => response.body = <<>>
    /\ \A k \in 1..Len(response.body), u \in PartsInUse :
         /\ u[2] # {} => Present(response.body[k][u[1]]) = u[2] \cup {0}
         /\ Present(response.body[k][u[1]]) \cap u[3] = {}

C8_Witness ==
  /\ SearchDone
  /\ request.searchMode = "exact"
  /\ request.separate = "true"
  /\ request.selASet = {4}
  /\ request.excASet = {}
  /\ request.selVSet = {0, 7}
  /\ request.excVSet = {4}
  /\ request.excludedSet # {}
  /\ Len(response.body) >= 1

\* the number of swara groups with a present pitch class
ActiveGroups(pattern) ==
  Cardinality({g \in {{0}, {1, 2}, {3, 4}, {5, 6}, {7}, {8, 9}, {10, 11}} :
                 g \cap Present(pattern) # {}})

PassesName(r) ==
  LET text == trim(request.search)
  IN text = <<>> \/ includes(toLowerCase(r.name), toLowerCase(text))

PassesScale(r) ==
  /\ request.scaleType = "5" => ActiveGroups(r.notePattern) = 5
  /\ request.scaleType = "6" => ActiveGroups(r.notePattern) = 6
  /\ request.scaleType = "7" => ActiveGroups(r.notePattern) = 7

\* contains-superset test of one pattern: the include set with the tonic
\* added is present when the include set is non-empty, the exclude set absent
ContainsOk(pattern, includeSet, excludeSet) ==
  /\ includeSet # {} => (includeSet \cup {0}) \subseteq Present(pattern)
  /\ excludeSet \cap Present(pattern) = {}

\* C9: in contains-superset mode a raga is returned iff it passes the name
\* and scale-size filters and, combined: combinedPattern passes the test
\* with the combined sets; separate: ascendingPattern passes with the
\* ascending sets and descendingPattern with the descending sets, the
\* combined sets playing no role.
C9_ContainsSuperset ==
  (SearchDone /\ request.searchMode = "contains") =>
    Cores(response.body) =
      SelectSeq(Repository,
        LAMBDA r :
          /\ PassesName(r)
          /\ PassesScale(r)
          /\ IF request.separate = "true"
             THEN /\ ContainsOk(r.aarohPattern, request.selASet, request.excASet)
                  /\ ContainsOk(r.avrohPattern, request.selVSet, request.excVSet)
             ELSE ContainsOk(r.notePattern, request.selectedSet, request.excludedSet))

\* separate mode, ascending include {4}: a raga whose ascending pattern has
\* 4 but not the tonic is left out, others are returned, while the combined
\* sets are non-empty
C9_Witness ==
  /\ SearchDone
  /\ request.searchMode = "contains"
  /\ request.separate = "true"
  /\ request.selASet = {4}
  /\ request.selectedSet = {0, 7}
  /\ request.excludedSet = {4}
  /\ Len(response.body) >= 1
  /\ \E i \in 1..Len(Repository) :
       /\ Present(Repository[i].aarohPattern) = {4}
       /\ \A k \in 1..Len(response.body) : response.body[k].name # Repository[i].name

\* a is b with some elements left out
RECURSIVE IsSubseq(_, _)
IsSubseq(a, b) ==
  IF a = <<>> THEN TRUE
  ELSE IF b = <<>> THEN FALSE
  ELSE IF Head(a) = Head(b) THEN IsSubseq(Tail(a), Tail(b))
  ELSE IsSubseq(a, Tail(b))

\* a record with its noteCount
Counted(r) == [name |-> r.name, notePattern |-> r.notePattern,
               aarohPattern |-> r.aarohPattern, avrohPattern |-> r.avrohPattern,
               noteCount |-> r.noteCount]

\* C10: the result is a subsequence of the repository list, each record
\* being a repository raga unchanged plus noteCount = the active swara
\* groups of its combinedPattern (order kept, no raga twice), and the three
\* filter stages give the same result in every order.
C10_StableSubsequence ==
  SearchDone =>
    LET body == response.body
        all == [k \in 1..Len(Repository) |->
                  [name |-> Repository[k].name, notePattern |-> Repository[k].notePattern,
                   aarohPattern |-> Repository[k].aarohPattern,
                   avrohPattern |-> Repository[k].avrohPattern,
                   noteCount |-> ActiveGroups(Repository[k].notePattern)]]
        start == Enriched(Repository)
        q == request
    IN /\ IsSubseq([k \in 1..Len(body) |-> Counted(body[k])], all)
       /\ body = PitchStage(NameStage(ScaleStage(start, q), q), q)
       /\ body = NameStage(PitchStage(ScaleStage(start, q), q), q)
       /\ body = ScaleStage(PitchStage(NameStage(start, q), q), q)
       /\ body = NameStage(ScaleStage(PitchStage(start, q), q), q)
       /\ body = ScaleStage(NameStage(PitchStage(start, q), q), q)

C10_Witness ==
  /\ SearchDone
  /\ trim(request.search) # <<>>
  /\ request.scaleType = "any"
  /\ request.selectedSet # {}
  /\ request.separate = "false"
  /\ Len(response.body) >= 2
  /\ Len(response.body) < Len(Repository)
  /\ \E i, j \in 1..Len(Repository) : i < j /\ Repository[i] = Repository[j]

(***************************************************************************)
(* C11.  Combined aggregates count the matches of the combined pattern.    *)
(***************************************************************************)
\* the raga the request was answered for, and its two flags
ServedRaga == ragaCache.ragas[1]

WantSeparate == request.separate = "true"

WantExtend == request.extend = "true"

CountOf(chords, extended) == Cardinality({k \in 1..Len(chords) : chords[k].isExtended = extended})

\* C11: with directionMode = combined, basicCount + extendedCount is the
\* length of matchChords(combinedPattern, "all", extend), which is the sum
\* over the catalog templates of the lengths of matchChords(combinedPattern,
\* templateId, extend); basicCount is the number of those chords with
\* isExtended false and extendedCount the number with isExtended true.
C11_CombinedAggregate ==
  (AggregateDone /\ ~WantSeparate) =>
    LET P == ServedRaga.notePattern
        all == availableChordsForPattern(P, "all", WantExtend)
        perType == [t \in 1..Len(chordTypes) |->
                      Len(availableChordsForPattern(P, chordTypes[t].id, WantExtend))]
    IN /\ response.body.basic + response.body.extended = Len(all)
       /\ Len(all) = SumSeq(perType)
       /\ response.body.basic = CountOf(all, FALSE)
       /\ response.body.extended = CountOf(all, TRUE)

\* a combined aggregate of a raga whose two directions differ, with matches
C11_Witness ==
  /\ AggregateDone
  /\ ~WantSeparate
  /\ WantExtend
  /\ ServedRaga.aarohPattern # ServedRaga.avrohPattern
  /\ ServedRaga.notePattern # ServedRaga.avrohPattern
  /\ ServedRaga.notePattern # ServedRaga.aarohPattern
  /\ response.body.extended > 2


(***************************************************************************)
(* C16.  Separate aggregates add the counts of the two directions.         *)
(***************************************************************************)
\* the (template, root) pairs that fit a pattern
FitPairs(P, extend) ==
  {<<t, r>> \in (1..Len(chordTypes)) \X (0..11) :
     /\ r \in Present(P)
     /\ \A i \in OffsetsOf(chordTypes[t], extend) : ((r + i) % 12) \in Present(P)}

\* C16: with directionMode = separate, basicCount (resp. extendedCount) is
\* the basic (resp. extended) match count over the ascending pattern plus
\* that over the descending pattern, each over all templates; a (template,
\* root) pair that fits both directions is counted twice, and the combined
\* pattern plays no part in the result.
C16_SeparateAggregate ==
  (AggregateDone /\ WantSeparate) =>
    LET r == ServedRaga
        up == availableChordsForPattern(r.aarohPattern, "all", WantExtend)
        down == availableChordsForPattern(r.avrohPattern, "all", WantExtend)
        A == FitPairs(r.aarohPattern, WantExtend)
        D == FitPairs(r.avrohPattern, WantExtend)
    IN /\ response.body.basic = CountOf(up, FALSE) + CountOf(down, FALSE)
       /\ response.body.extended = CountOf(up, TRUE) + CountOf(down, TRUE)
       /\ response.body.basic + response.body.extended
            = Cardinality(A \cup D) + Cardinality(A \cap D)
       /\ response.body
            = aggregates([r EXCEPT !.notePattern = PatternOf({})], TRUE, WantExtend)

\* a separate aggregate where some pair fits both directions, some pair fits
\* one only, and the combined pattern would have given another total
C16_Witness ==
  /\ AggregateDone
  /\ WantSeparate
  /\ LET r == ServedRaga
         A == FitPairs(r.aarohPattern, WantExtend)
         D == FitPairs(r.avrohPattern, WantExtend)
     IN /\ A \cap D # {}
        /\ A \ D # {}
        /\ D \ A # {}
        /\ Cardinality(FitPairs(r.notePattern, WantExtend))
             # response.body.basic + response.body.extended

(***************************************************************************)
(* C18.  isExtended is the extend flag; one of the two counts is zero.     *)
(***************************************************************************)
\* C18: every catalog template has at least 3 intervals, so the chords of
\* one matchChords call all carry isExtended equal to the extend flag; hence
\* an aggregate with extend = true has basicCount = 0 and one with
\* extend = false has extendedCount = 0, for every raga and direction mode.
C18_ExtendedIsFlag ==
  /\ \A t \in 1..Len(chordTypes) : Len(chordTypes[t].intervals) >= 3
  /\ AggregateDone =>
       LET r == ServedRaga
       IN /\ \A P \in {r.aarohPattern, r.avrohPattern, r.notePattern} :
               LET chords == availableChordsForPattern(P, "all", WantExtend)
               IN \A k \in 1..Len(chords) : chords[k].isExtended = WantExtend
          /\ WantExtend => response.body.basic = 0
          /\ ~WantExtend => response.body.extended = 0

\* an extended aggregate with matches, all of them counted as extended
C18_Witness ==
  /\ AggregateDone
  /\ WantExtend
  /\ WantSeparate
  /\ response.body.basic = 0
  /\ response.body.extended > 12

(***************************************************************************)
(* C14.  The pentatonic scenario.                                          *)
(***************************************************************************)
PentatonicMajorCall ==
  /\ MatchDone
  /\ Present(request.pattern) = {0, 2, 4, 7, 9}
  /\ request.chordId = "major"
  /\ ~request.extend

\* C14 as stated: for a pattern with exactly the pitch classes {0,2,4,7,9}
\* present, matchChords(pattern, "major", false) returns exactly the roots
\* {0, 4, 7}.
C14_PentatonicRoots047 ==
  PentatonicMajorCall =>
    {response.body[k].root : k \in 1..Len(response.body)} = {0, 4, 7}

\* C14 amended: the call returns exactly one chord, of root 0 with the notes
\* 0, 4, 7; the roots 4 and 7 fail because 8 and 11 are absent.
C14_PentatonicRootSa ==
  PentatonicMajorCall =>
    /\ Len(response.body) = 1
    /\ response.body[1].root = 0
    /\ response.body[1].notes = <<0, 4, 7>>
    /\ response.body[1].type.id = "major"
    /\ {response.body[k].root : k \in 1..Len(response.body)} = {0}

C14_Witness ==
  /\ PentatonicMajorCall
  /\ Len(response.body) > 0

(***************************************************************************)
(* C19.  Extension only restricts the matches.                             *)
(***************************************************************************)
PairsOf(chords) == {<<chords[k].type.id, chords[k].root>> : k \in 1..Len(chords)}

\* C19: for every pattern and template filter the (template, root) pairs
\* returned with extend = true are a subset of those returned with
\* extend = false, so the extended result is never longer; for the
\* templates whose synthesized offset (max + 3) mod 12 is 0, which are dim7,
\* maj6 and min6, the two sets of pairs are equal.
C19_ExtensionRestricts ==
  /\ {chordTypes[t].id : t \in {u \in 1..Len(chordTypes) :
                                  (MaxOf(chordTypes[u].intervals) + 3) % 12 = 0}} = WrapIds
  /\ (MatchDone /\ request.extend) =>
       LET plain == availableChordsForPattern(request.pattern, request.chordId, FALSE)
       IN /\ PairsOf(response.body) \subseteq PairsOf(plain)
          /\ Len(response.body) <= Len(plain)
          /\ \A id \in WrapIds :
               {p \in PairsOf(response.body) : p[1] = id} = {p \in PairsOf(plain) : p[1] = id}

\* an extended call that keeps a dim7, maj6 or min6 chord and loses others
C19_Witness ==
  /\ MatchDone
  /\ request.extend
  /\ \E k \in 1..Len(response.body) : response.body[k].type.id \in WrapIds
  /\ \E k \in 1..Len(response.body) : response.body[k].type.id \notin WrapIds
  /\ Len(response.body)
       < Len(availableChordsForPattern(request.pattern, request.chordId, FALSE))

(***************************************************************************)
(* C20.  The custom matcher agrees with the chord matcher on the catalog.  *)
(***************************************************************************)
CatalogIds == {chordTypes[t].id : t \in 1..Len(chordTypes)}

\* C20: for every pattern P and catalog template T the roots returned by
\* matchCustom(P, T.intervals) are exactly those returned by
\* matchChords(P, T.id, extend = false), with the same note sequences in the
\* same root order; the root-presence check of the chord matcher changes
\* nothing because every template contains the interval 0.
C20_CustomAgreesOnCatalog ==
  /\ \A t \in 1..Len(chordTypes) : 0 \in Range(chordTypes[t].intervals)
  /\ (MatchDone /\ ~request.extend /\ request.chordId \in CatalogIds) =>
       LET T == CHOOSE c \in Range(chordTypes) : c.id = request.chordId
           custom == findMatches(request.pattern,
                                 PitchClasses([k \in 1..Len(T.intervals) |-> Num(T.intervals[k])]))
       IN /\ Len(custom) = Len(response.body)
          /\ \A k \in 1..Len(custom) :
               /\ custom[k].root = response.body[k].root
               /\ custom[k].notes = response.body[k].notes
               /\ custom[k].rootName = response.body[k].rootName

\* a catalog template matched at several roots without extension
C20_Witness ==
  /\ MatchDone
  /\ ~request.extend
  /\ request.chordId = "minor7"
  /\ Len(response.body) >= 2
  /\ Len(response.body) < Cardinality(Present(request.pattern))

(***************************************************************************)
(* Claims about the server process (checked under Spec).                   *)
(***************************************************************************)
\* C12: over any sequence of requests in one process the source is read at
\* most once, on the first getRagas call; once the cache is populated its
\* content never changes, and every later getRagas call returns that same
\* content without reading the source again, whatever has become of the
\* source in between.
C12_LoadOnce ==
  /\ [](reads <= 1)
  /\ [](ragaCache.set <=> reads = 1)
  /\ []((request.op = "list" /\ ragaCache.set) => response.body = NamesOf(ragaCache.ragas))
  /\ [][(~ragaCache.set /\ ragaCache'.set) => reads' = reads + 1]_vars
  /\ [][ragaCache.set => (ragaCache' = ragaCache /\ reads' = reads)]_vars

\* the ragas were loaded, the file has gone since, and a later listing still
\* answers from the cache after the single read
C12_Witness ==
  /\ reads = 1
  /\ ragaCache.set
  /\ Len(ragaCache.ragas) > 0
  /\ ~csv.readable
  /\ request.op = "list"
  /\ Len(response.body) = Len(ragaCache.ragas)

\* the cache after a failed first read (a readable file here always holds
\* ragas)
FailedLoad == ragaCache.set /\ ragaCache.ragas = <<>>

\* a request that names a raga, with a well-formed encoding
NamedRequest ==
  /\ request.op \in {"raga", "chords", "custom", "aggregates"}
  /\ Decodable(request.name)

\* a request whose name (if it has one) and body (if it has one) can be
\* decoded
WellFormed(req) ==
  /\ req.op \in {"raga", "chords", "custom", "aggregates"} => Decodable(req.name)
  /\ req.op = "custom" => req.intervalsAbs.t # "malformed"

\* C13: if the first read of the source fails the cache is set to the empty
\* list and the request is answered without a fault; no later request reads
\* the source again, also when it has become readable; from then on listing
\* and search return empty lists and fetch raga, chords, custom matches with
\* a valid interval list and aggregates answer NotFound for every name.
C13_FailedLoad ==
  /\ [][(reads' = reads + 1 /\ ~csv.readable) =>
          /\ ragaCache' = [set |-> TRUE, ragas |-> <<>>]
          /\ WellFormed(request') => response'.status \in {200, 404}]_vars
  /\ [][FailedLoad => (ragaCache' = ragaCache /\ reads' = reads)]_vars
  /\ [](FailedLoad =>
          /\ request.op \in {"list", "search"} => response = json(200, <<>>)
          /\ (NamedRequest /\ request.op # "custom") => response = NotFound
          /\ (NamedRequest /\ request.op = "custom"
                /\ ~InvalidIntervals(request.intervalsAbs)) => response = NotFound)

\* the load failed, the file is readable by now, and a request for the
\* chords of a raga of the file is answered NotFound without a second read
C13_Witness ==
  /\ FailedLoad
  /\ csv.readable
  /\ request.op = "chords"
  /\ FindRaga(parseAarohAvrohCSV(csv.rows), request.name) > 0
  /\ response = NotFound
  /\ reads = 1

\* C15: every request ends in a success result or a structured failure
\* result; no request, a custom-match request with a malformed body or a
\* malformedly encoded raga name included, ends in a raw uncaught fault.
\* Stated here by its part on faults: no response is a thrown error.
C15_NoRawFault == response.status # -1

\* C17: for the same loaded raga list and the same well-formed request the
\* Express server and the Netlify handler answer with the same status and
\* the same body, requests that are invalid in more than one way included.
C17_DeploymentsAgree ==
  (request.op # "none" /\ WellFormed(request)) =>
    LET express == ExpressResponse(ragaCache, csv, request)
        netlify == NetlifyResponse(ragaCache, csv, request)
    IN /\ express.status = netlify.status
       /\ express.body = netlify.body

====
